---- MODULE Spec2Model ----
(***************************************************************************)
(* Model of the reclassification paperwork processor                       *)
(* (reclassification_processor.py) and of the driver in main.py.           *)
(*                                                                         *)
(* A page of a PDF is modelled by what the regular expressions of the      *)
(* program can see in its text; a student id is the sequence of its        *)
(* digits, so that string order, numeric order and the int conversion of   *)
(* pandas can be told apart.  Student names are not modelled.              *)
(***************************************************************************)
EXTENDS Integers, Sequences, FiniteSets, TLC

\* ------------------------------------------------------------------ bounds
MaxPages == 4        \* pages of the file handed to the boundary resolver
MaxRunPages == 3     \* pages of all input files of one run of main()
MaxFiles == 2        \* input files of one run
MaxRuns == 2         \* invocations of main()

\* ------------------------------------------------------- document types
Teacher == "Teacher Recommendation Form"
Meeting == "Reclassification Meeting"
Notification == "Notification of English Language Program Exit"

\* DOCUMENT_PATTERNS: the titles in the order the dict is iterated
DOCUMENT_PATTERNS == <<Teacher, Meeting, Notification>>

DocTypes == {DOCUMENT_PATTERNS[i] : i \in 1..Len(DOCUMENT_PATTERNS)}

\* required_docs of create_combined_pdfs
required_docs == {Teacher, Meeting, Notification}

\* ------------------------------------------------------------ student ids
\* An id is the sequence of its decimal digits (5 or 6 of them).
NoId == <<>>
IdA == <<1, 0, 0, 0, 0>>
IdB == <<0, 2, 0, 0, 0, 0>>

\* the ids that occur on the pages: 5 digits, and 6 digits with a leading zero
StudentIds == {IdA, IdB}

\* Python's str < str: character by character, a proper prefix first
RECURSIVE StrLess(_, _)
StrLess(a, b) ==
    IF b = <<>> THEN FALSE
    ELSE IF a = <<>> THEN TRUE
    ELSE IF a[1] # b[1] THEN a[1] < b[1]
    ELSE StrLess(Tail(a), Tail(b))

\* the number a digit string denotes
RECURSIVE NumValue(_)
NumValue(s) ==
    IF s = <<>> THEN 0
    ELSE 10 * NumValue(SubSeq(s, 1, Len(s) - 1)) + s[Len(s)]

\* re.search(label + id): the digits after the label start with the id
IsPrefix(p, s) ==
    /\ Len(p) <= Len(s)
    /\ SubSeq(s, 1, Len(p)) = p

\* ------------------------------------------------------------------ pages
\* marks : the DOCUMENT_PATTERNS whose pattern matches the text, in the
\*         order in which their markers occur in the text
\* en    : the digits that follow an English "Student ID" label (NoId: none)
\* alt   : the digits that follow the Chinese or Spanish id label
\* marker: a translation-section marker occurs in the text
\* sig   : a signature/consent keyword occurs in the text
\* ok    : extract_text() succeeds on the page
Page(marks, en, alt, marker, sig, ok) ==
    [marks |-> marks, en |-> en, alt |-> alt, marker |-> marker, sig |-> sig, ok |-> ok]

AnchorPage(t, id) == Page(<<t>>, id, NoId, FALSE, FALSE, TRUE)
BlankPage == Page(<<>>, NoId, NoId, FALSE, FALSE, TRUE)
TranslationPage == Page(<<>>, NoId, NoId, TRUE, FALSE, TRUE)
SignaturePage == Page(<<>>, NoId, NoId, FALSE, TRUE, TRUE)
\* a page that names a student without naming a document type
IdPage(id) == Page(<<>>, id, NoId, FALSE, FALSE, TRUE)
\* a translated page that names a student after the Chinese or Spanish label
TranslationPageOf(id) == Page(<<>>, NoId, id, TRUE, FALSE, TRUE)
\* a page whose text cannot be extracted, whatever is printed on it
BrokenPage == Page(<<Notification>>, IdA, NoId, TRUE, TRUE, FALSE)

\* the pages the boundary resolver is exercised on
ResolverPages ==
    {AnchorPage(t, id) : t \in DocTypes, id \in StudentIds}
        \cup {BlankPage, TranslationPage, SignaturePage, BrokenPage}
        \cup {IdPage(id) : id \in StudentIds}
        \cup {TranslationPageOf(id) : id \in StudentIds}

\* the pages of the input files of main()
RunPages ==
    {AnchorPage(t, id) : t \in DocTypes, id \in StudentIds} \cup {TranslationPage}

\* all sequences over S of length 0..n
SeqsUpTo(S, n) == UNION {[1..k -> S] : k \in 0..n}

\* --------------------------------------------------------- small helpers
RECURSIVE MinOf(_)
MinOf(s) ==
    IF Len(s) = 1 THEN s[1]
    ELSE LET m == MinOf(Tail(s)) IN IF s[1] < m THEN s[1] ELSE m

RECURSIVE MaxOf(_)
MaxOf(s) ==
    IF Len(s) = 1 THEN s[1]
    ELSE LET m == MaxOf(Tail(s)) IN IF s[1] > m THEN s[1] ELSE m

\* the elements of a sequence
Range(s) == {s[i] : i \in 1..Len(s)}

\* sorted(list of ints)
RECURSIVE InsertInt(_, _)
InsertInt(x, s) ==
    IF s = <<>> THEN <<x>>
    ELSE IF x < s[1] THEN <<x>> \o s
    ELSE <<s[1]>> \o InsertInt(x, Tail(s))

RECURSIVE SortedInts(_)
SortedInts(s) ==
    IF s = <<>> THEN <<>>
    ELSE InsertInt(s[1], SortedInts(Tail(s)))

\* ------------------------------------------------------- page classifier
\* mutant of FirstPattern: the marker that occurs first in the text wins
FirstPatternInText(marks, k) ==
    IF marks = <<>> THEN <<>> ELSE <<marks[1]>>

\* the loop over DOCUMENT_PATTERNS: the first pattern that matches wins
RECURSIVE FirstPattern(_, _)
FirstPattern(marks, k) ==
    IF k > Len(DOCUMENT_PATTERNS) THEN <<>>
    ELSE IF DOCUMENT_PATTERNS[k] \in Range(marks) THEN <<DOCUMENT_PATTERNS[k]>>
    ELSE FirstPattern(marks, k + 1)

\* (\d{6}) is tried before (\d{5}) on the digits after a label
ExtractDigits(run) ==
    IF Len(run) >= 6 THEN SubSeq(run, 1, 6)
    ELSE IF Len(run) = 5 THEN run
    ELSE NoId

\* mutant of ExtractStudentId: the whole run of digits is captured
ExtractStudentIdWholeRun(pg) ==
    IF Len(pg.en) >= 5 THEN pg.en
    ELSE IF Len(pg.alt) >= 5 THEN pg.alt
    ELSE NoId

\* student_id_patterns: the English labels are tried before the others
ExtractStudentId(pg) ==
    IF ExtractDigits(pg.en) # NoId THEN ExtractDigits(pg.en)
    ELSE ExtractDigits(pg.alt)

\* _identify_document_and_student: <<>> is None
IdentifyDocumentAndStudent(pg) ==
    LET dt == FirstPattern(pg.marks, 1) IN
    IF dt = <<>> THEN <<>>
    ELSE IF ExtractStudentId(pg) = NoId THEN <<>>
    ELSE <<[document_type |-> dt[1], student_id |-> ExtractStudentId(pg)]>>

\* student_page_map[student_id].append(...), the dict kept in insertion order
MapAppend(map, sid, entry) ==
    IF \E k \in 1..Len(map) : map[k].student_id = sid
    THEN [k \in 1..Len(map) |->
            IF map[k].student_id = sid
            THEN [map[k] EXCEPT !.pages = Append(@, entry)]
            ELSE map[k]]
    ELSE Append(map, [student_id |-> sid, pages |-> <<entry>>])

\* mutant of ScanPages: the loop ends at the first page that raises
RECURSIVE ScanPagesBreak(_, _, _)
ScanPagesBreak(pages, i, map) ==
    IF i > Len(pages) THEN map
    ELSE IF ~pages[i].ok THEN map
    ELSE LET info == IdentifyDocumentAndStudent(pages[i]) IN
         IF info = <<>> THEN ScanPagesBreak(pages, i + 1, map)
         ELSE ScanPagesBreak(pages, i + 1,
                  MapAppend(map, info[1].student_id,
                      [page_num |-> i - 1, doc_type |-> info[1].document_type]))

\* the page loop of _process_pdf_file; i is the 1-based position of page_num
RECURSIVE ScanPages(_, _, _)
ScanPages(pages, i, map) ==
    IF i > Len(pages) THEN map
    ELSE IF ~pages[i].ok THEN ScanPages(pages, i + 1, map)
    ELSE LET info == IdentifyDocumentAndStudent(pages[i]) IN
         IF info = <<>> THEN ScanPages(pages, i + 1, map)
         ELSE ScanPages(pages, i + 1,
                  MapAppend(map, info[1].student_id,
                      [page_num |-> i - 1, doc_type |-> info[1].document_type]))

StudentPageMap(pages) == ScanPages(pages, 1, <<>>)

\* ----------------------------------------------------- boundary resolver
PageNums(entry) == [k \in 1..Len(entry.pages) |-> entry.pages[k].page_num]

\* sorted(student_page_map.items(), key=min page): a stable insertion sort
RECURSIVE InsertStudent(_, _)
InsertStudent(e, s) ==
    IF s = <<>> THEN <<e>>
    ELSE IF MinOf(PageNums(e)) < MinOf(PageNums(s[1])) THEN <<e>> \o s
    ELSE <<s[1]>> \o InsertStudent(e, Tail(s))

RECURSIVE SortedStudents(_)
SortedStudents(map) ==
    IF map = <<>> THEN <<>>
    ELSE InsertStudent(map[1], SortedStudents(Tail(map)))

\* mutant of StudentBoundaries: the next student's first page is ignored
StudentBoundariesToEnd(map, total_pages) ==
    LET sorted == SortedStudents(map) IN
    [i \in 1..Len(sorted) |->
        [student_id |-> sorted[i].student_id,
         min_page |-> MinOf(PageNums(sorted[i])),
         max_page |-> MaxOf(PageNums(sorted[i])),
         safe_upper_bound |-> total_pages - 1]]

\* student_boundaries, as a sequence parallel to sorted_students
StudentBoundaries(map, total_pages) ==
    LET sorted == SortedStudents(map) IN
    [i \in 1..Len(sorted) |->
        [student_id |-> sorted[i].student_id,
         min_page |-> MinOf(PageNums(sorted[i])),
         max_page |-> MaxOf(PageNums(sorted[i])),
         safe_upper_bound |->
            IF i + 1 <= Len(sorted)
            THEN MinOf(PageNums(sorted[i + 1])) - 1
            ELSE total_pages - 1]]

BoundariesOf(map, total_pages, sid) ==
    LET b == StudentBoundaries(map, total_pages) IN
    b[CHOOSE i \in 1..Len(b) : b[i].student_id = sid]

\* mutant of AnchorPageNums: the anchor pages are not recorded as identified
AnchorPageNumsNone(map) == {}

\* all_identified_pages before any continuation page is assigned
AnchorPageNums(map) ==
    UNION {Range(PageNums(map[k])) : k \in 1..Len(map)}

\* doc_groups of one student: document type -> page numbers, insertion order
RECURSIVE GroupPages(_, _)
GroupPages(entries, groups) ==
    IF entries = <<>> THEN groups
    ELSE LET e == entries[1] IN
         GroupPages(Tail(entries),
            IF \E k \in 1..Len(groups) : groups[k].doc_type = e.doc_type
            THEN [k \in 1..Len(groups) |->
                    IF groups[k].doc_type = e.doc_type
                    THEN [groups[k] EXCEPT !.pages = Append(@, e.page_num)]
                    ELSE groups[k]]
            ELSE Append(groups, [doc_type |-> e.doc_type, pages |-> <<e.page_num>>]))

\* mutant of CheckPageBelongsToStudent: a signature keyword is enough
CheckPageAnySignature(file_pages, page_num, sid) ==
    IF ~(page_num < Len(file_pages)) THEN FALSE
    ELSE LET pg == file_pages[page_num + 1] IN
         IF ~pg.ok THEN FALSE
         ELSE IF IsPrefix(sid, pg.en) \/ IsPrefix(sid, pg.alt) THEN TRUE
         ELSE IF pg.marker THEN TRUE
         ELSE pg.sig

\* mutant of CheckPageBelongsToStudent: the translation markers are not tried
CheckPageWithoutMarkers(file_pages, page_num, sid) ==
    IF ~(page_num < Len(file_pages)) THEN FALSE
    ELSE LET pg == file_pages[page_num + 1] IN
         IF ~pg.ok THEN FALSE
         ELSE IF IsPrefix(sid, pg.en) \/ IsPrefix(sid, pg.alt) THEN TRUE
         ELSE pg.sig /\ ~(Len(pg.en) >= 5)

\* _check_page_belongs_to_student: the page is read again from the file
CheckPageBelongsToStudent(file_pages, page_num, sid) ==
    IF ~(page_num < Len(file_pages)) THEN FALSE
    ELSE LET pg == file_pages[page_num + 1] IN
         IF ~pg.ok THEN FALSE
         ELSE IF IsPrefix(sid, pg.en) \/ IsPrefix(sid, pg.alt) THEN TRUE
         ELSE IF pg.marker THEN TRUE
         ELSE pg.sig /\ ~(Len(pg.en) >= 5)

\* the ceiling on the distance to the page before
NotificationCeiling == 3
OtherCeiling == 1
MaxDistance(doc_type) ==
    IF doc_type = Notification THEN NotificationCeiling ELSE OtherCeiling

\* mutant of BestDocType: the last group that has a page before wins
RECURSIVE BestDocTypeLast(_, _, _, _, _)
BestDocTypeLast(groups, k, page_num, best_k, best_distance) ==
    IF k > Len(groups) THEN [k |-> best_k, distance |-> best_distance]
    ELSE LET Before(p) == p < page_num
             relevant == SelectSeq(groups[k].pages, Before)
         IN  IF relevant # <<>>
             THEN BestDocTypeLast(groups, k + 1, page_num, k, page_num - MaxOf(relevant))
             ELSE BestDocTypeLast(groups, k + 1, page_num, best_k, best_distance)

\* the loop over doc_groups.items(): k = 0 stands for best_doc_type None
RECURSIVE BestDocType(_, _, _, _, _)
BestDocType(groups, k, page_num, best_k, best_distance) ==
    IF k > Len(groups) THEN [k |-> best_k, distance |-> best_distance]
    ELSE LET Before(p) == p < page_num
             relevant == SelectSeq(groups[k].pages, Before)
         IN  IF relevant # <<>>
                /\ (best_k = 0 \/ page_num - MaxOf(relevant) < best_distance)
             THEN BestDocType(groups, k + 1, page_num, k, page_num - MaxOf(relevant))
             ELSE BestDocType(groups, k + 1, page_num, best_k, best_distance)

\* mutant of AssignPage: the distance has to be below the ceiling
AssignPageStrict(groups, page_num) ==
    LET best == BestDocType(groups, 1, page_num, 0, 0) IN
    IF best.k # 0 /\ best.distance < MaxDistance(groups[best.k].doc_type)
    THEN best.k ELSE 0

\* whether (and where) page_num joins a group of the student
AssignPage(groups, page_num) ==
    LET best == BestDocType(groups, 1, page_num, 0, 0) IN
    IF best.k # 0 /\ best.distance <= MaxDistance(groups[best.k].doc_type)
    THEN best.k ELSE 0

\* mutant of AssignLoop: every page up to the upper bound that passes the
\* check joins the student's first group, wherever the group's pages are
RECURSIVE AssignLoopFromStart(_, _, _, _, _, _)
AssignLoopFromStart(file_pages, sid, page_num, upper, groups, identified) ==
    LET passing == {p \in 0..upper :
                       /\ p \notin identified
                       /\ CheckPageBelongsToStudent(file_pages, p, sid)}
    IN  IF passing = {} THEN [groups |-> groups, identified |-> identified]
        ELSE LET p == CHOOSE q \in passing : \A r \in passing : q <= r IN
             AssignLoopFromStart(file_pages, sid, page_num, upper,
                 [groups EXCEPT ![1].pages = Append(@, p)],
                 identified \cup {p})

\* the loop over range(min_page, safe_upper_bound + 1) for one student
RECURSIVE AssignLoop(_, _, _, _, _, _)
AssignLoop(file_pages, sid, page_num, upper, groups, identified) ==
    IF page_num > upper THEN [groups |-> groups, identified |-> identified]
    ELSE IF page_num \notin identified
            /\ CheckPageBelongsToStudent(file_pages, page_num, sid)
            /\ AssignPage(groups, page_num) # 0
         THEN LET k == AssignPage(groups, page_num) IN
              AssignLoop(file_pages, sid, page_num + 1, upper,
                  [groups EXCEPT ![k].pages = Append(@, page_num)],
                  identified \cup {page_num})
         ELSE AssignLoop(file_pages, sid, page_num + 1, upper, groups, identified)

\* mutant of DocumentInfos: the page list is stored as it was appended
DocumentInfosUnsorted(path, sid, groups) ==
    [k \in 1..Len(groups) |->
        [file_path |-> path,
         student_id |-> sid,
         document_type |-> groups[k].doc_type,
         pages |-> groups[k].pages,
         page_count |-> Len(groups[k].pages)]]

\* DocumentInfo(...) for each doc_groups item of one student
DocumentInfos(path, sid, groups) ==
    [k \in 1..Len(groups) |->
        [file_path |-> path,
         student_id |-> sid,
         document_type |-> groups[k].doc_type,
         pages |-> SortedInts(groups[k].pages),
         page_count |-> Len(groups[k].pages)]]

\* the loop over student_page_map.items(), from student number k on
RECURSIVE StudentLoop(_, _, _, _, _, _)
StudentLoop(path, file_pages, map, k, identified, documents) ==
    IF k > Len(map) THEN documents
    ELSE LET sid == map[k].student_id
             b == BoundariesOf(map, Len(file_pages), sid)
             r == AssignLoop(file_pages, sid, b.min_page, b.safe_upper_bound,
                             GroupPages(map[k].pages, <<>>), identified)
         IN  StudentLoop(path, file_pages, map, k + 1, r.identified,
                         documents \o DocumentInfos(path, sid, r.groups))

\* _create_documents_from_student_pages
CreateDocumentsFromStudentPages(path, file_pages, map) ==
    StudentLoop(path, file_pages, map, 1, AnchorPageNums(map), <<>>)

\* ------------------------------------------------------------ process_pdfs
\* mutant of ProcessPdfFile: the documents built before the error are kept
ProcessPdfFileKeepsPartial(path, file) ==
    CreateDocumentsFromStudentPages(path, file.pages, StudentPageMap(file.pages))

\* _process_pdf_file: a file whose processing raises yields no document
ProcessPdfFile(path, file) ==
    IF ~file.readable THEN <<>>
    ELSE CreateDocumentsFromStudentPages(path, file.pages, StudentPageMap(file.pages))

\* mutant of AllDocuments: each file's documents replace the list so far
AllDocumentsLastFile(fs, k) ==
    IF fs = <<>> THEN <<>> ELSE ProcessPdfFile(Len(fs), fs[Len(fs)])

\* the loop over pdf_files, from file number k on
RECURSIVE AllDocuments(_, _)
AllDocuments(fs, k) ==
    IF k > Len(fs) THEN <<>>
    ELSE ProcessPdfFile(k, fs[k]) \o AllDocuments(fs, k + 1)

\* _group_by_student: student id -> documents, in insertion order
RECURSIVE GroupByStudent(_, _)
GroupByStudent(docs, groups) ==
    IF docs = <<>> THEN groups
    ELSE LET d == docs[1] IN
         GroupByStudent(Tail(docs),
            IF \E k \in 1..Len(groups) : groups[k].student_id = d.student_id
            THEN [k \in 1..Len(groups) |->
                    IF groups[k].student_id = d.student_id
                    THEN [groups[k] EXCEPT !.docs = Append(@, d)]
                    ELSE groups[k]]
            ELSE Append(groups, [student_id |-> d.student_id, docs |-> <<d>>]))

\* process_pdfs
ProcessPdfs(fs) == GroupByStudent(AllDocuments(fs, 1), <<>>)

\* ---------------------------------------------------- create_combined_pdfs
\* order_priority of _sort_documents_by_priority
OrderPriority(doc_type) ==
    CASE doc_type = Notification -> 1
      [] doc_type = Meeting -> 2
      [] doc_type = Teacher -> 3
      [] OTHER -> 999

RECURSIVE InsertDoc(_, _)
InsertDoc(d, s) ==
    IF s = <<>> THEN <<d>>
    ELSE IF OrderPriority(d.document_type) < OrderPriority(s[1].document_type)
         THEN <<d>> \o s
    ELSE <<s[1]>> \o InsertDoc(d, Tail(s))

\* mutant of SortDocumentsByPriority: the documents stay as they were found
SortDocumentsAsFound(docs) == docs

\* _sort_documents_by_priority: sorted() is stable
RECURSIVE SortDocumentsByPriority(_)
SortDocumentsByPriority(docs) ==
    IF docs = <<>> THEN <<>>
    ELSE InsertDoc(docs[1], SortDocumentsByPriority(Tail(docs)))

\* What the file system does while the PDFs are combined:
\* unreadable: source files that can no longer be opened,
\* short     : source files that have lost their last page,
\* write_fail: students whose output file cannot be written.
CombineEnv(unreadable, short, write_fail) ==
    [unreadable |-> unreadable, short |-> short, write_fail |-> write_fail]

\* the students create_combined_pdfs combines, and the files it reads for them
CompleteStudents(sdocs) ==
    {k \in 1..Len(sdocs) :
        required_docs \subseteq {sdocs[k].docs[d].document_type :
                                    d \in 1..Len(sdocs[k].docs)}}

SourceFiles(sdocs) ==
    UNION {{sdocs[k].docs[d].file_path : d \in 1..Len(sdocs[k].docs)} :
              k \in CompleteStudents(sdocs)}

\* at most one thing goes wrong in a run, to a file that is read again or to
\* an output file that is written
CombineEnvs(fs, sdocs) ==
    {CombineEnv({}, {}, {})}
        \cup {CombineEnv({f}, {}, {}) : f \in SourceFiles(sdocs)}
        \cup {CombineEnv({}, {f}, {}) : f \in SourceFiles(sdocs)}
        \cup {CombineEnv({}, {}, {sdocs[k].student_id}) :
                 k \in CompleteStudents(sdocs)}

\* len(reader.pages) when the file is opened again
PagesAtCombine(fs, env, path) ==
    IF path \in env.short /\ Len(fs[path].pages) > 0
    THEN Len(fs[path].pages) - 1
    ELSE Len(fs[path].pages)

\* the pages one document adds to the writer
DocPagesAdded(fs, env, doc) ==
    IF doc.file_path \in env.unreadable THEN <<>>
    ELSE LET Present(p) == p < PagesAtCombine(fs, env, doc.file_path)
             kept == SelectSeq(doc.pages, Present)
         IN  [i \in 1..Len(kept) |-> <<doc.file_path, kept[i]>>]

\* mutant of CombineDocuments: a page that is not found ends the combination
RECURSIVE CombineDocumentsStopAtMissing(_, _, _)
CombineDocumentsStopAtMissing(fs, env, docs) ==
    IF docs = <<>> THEN <<>>
    ELSE IF Len(DocPagesAdded(fs, env, docs[1])) < Len(docs[1].pages)
         THEN DocPagesAdded(fs, env, docs[1])
    ELSE DocPagesAdded(fs, env, docs[1])
             \o CombineDocumentsStopAtMissing(fs, env, Tail(docs))

\* _combine_documents: the pages of the output file, in order
RECURSIVE CombineDocuments(_, _, _)
CombineDocuments(fs, env, docs) ==
    IF docs = <<>> THEN <<>>
    ELSE DocPagesAdded(fs, env, docs[1]) \o CombineDocuments(fs, env, Tail(docs))

FoundDocTypes(docs) == {docs[i].document_type : i \in 1..Len(docs)}

\* mutant of IsComplete: any document found counts as a complete set
IsCompleteAny(found) == found # {}

\* required_docs.issubset(found_doc_types)
IsComplete(found) == required_docs \subseteq found

\* missing_docs = required_docs - found_doc_types
MissingDocs(found) == required_docs \ found

\* A combined PDF out\<student_id>_<name>_Reclassification_Paperwork.pdf is
\* named by the student id its file name starts with.
OutputPath(sid) == sid

\* mutant of CombineLoop: a student whose combination raises is in no list
RECURSIVE CombineLoopDropsFailed(_, _, _, _, _, _)
CombineLoopDropsFailed(fs, env, now, sdocs, k, acc) ==
    IF k > Len(sdocs) THEN acc
    ELSE LET sid == sdocs[k].student_id
             docs == sdocs[k].docs
             found == FoundDocTypes(docs)
         IN  CombineLoopDropsFailed(fs, env, now, sdocs, k + 1,
               IF IsComplete(found)
               THEN IF sid \in env.write_fail
                    THEN acc
                    ELSE [acc EXCEPT
                            !.written = Append(@,
                                [path |-> OutputPath(sid),
                                 pages |-> CombineDocuments(fs, env,
                                              SortDocumentsByPriority(docs))]),
                            !.created_files = Append(@, OutputPath(sid)),
                            !.completed_students = Append(@,
                                [student_id |-> sid, completed_date |-> now])]
               ELSE [acc EXCEPT !.incomplete_students = Append(@,
                        [student_id |-> sid, error |-> FALSE,
                         found_documents |-> found,
                         missing_documents |-> MissingDocs(found)])])

\* the loop of create_combined_pdfs, from student number k on
RECURSIVE CombineLoop(_, _, _, _, _, _)
CombineLoop(fs, env, now, sdocs, k, acc) ==
    IF k > Len(sdocs) THEN acc
    ELSE LET sid == sdocs[k].student_id
             docs == sdocs[k].docs
             found == FoundDocTypes(docs)
         IN  CombineLoop(fs, env, now, sdocs, k + 1,
               IF IsComplete(found)
               THEN IF sid \in env.write_fail
                    THEN [acc EXCEPT !.incomplete_students = Append(@,
                            [student_id |-> sid, error |-> TRUE,
                             found_documents |-> found,
                             missing_documents |-> {}])]
                    ELSE [acc EXCEPT
                            !.written = Append(@,
                                [path |-> OutputPath(sid),
                                 pages |-> CombineDocuments(fs, env,
                                              SortDocumentsByPriority(docs))]),
                            !.created_files = Append(@, OutputPath(sid)),
                            !.completed_students = Append(@,
                                [student_id |-> sid, completed_date |-> now])]
               ELSE [acc EXCEPT !.incomplete_students = Append(@,
                        [student_id |-> sid, error |-> FALSE,
                         found_documents |-> found,
                         missing_documents |-> MissingDocs(found)])])

\* create_combined_pdfs
CreateCombinedPdfsResult(fs, env, now, sdocs) ==
    CombineLoop(fs, env, now, sdocs, 1,
        [created_files |-> <<>>, incomplete_students |-> <<>>,
         completed_students |-> <<>>, written |-> <<>>])

\* ------------------------------------------------------------- CSV files
\* mutant of ExportMissingPaperworkCsv: an empty report is written, not removed
ExportMissingKeepsFile(incomplete) ==
    [exists |-> TRUE,
     rows |-> [i \in 1..Len(incomplete) |->
                 [student_id |-> incomplete[i].student_id,
                  missing_documents |-> incomplete[i].missing_documents,
                  found_documents |-> incomplete[i].found_documents,
                  error |-> incomplete[i].error]]]

\* export_missing_paperwork_csv: the file after the call
ExportMissingPaperworkCsv(incomplete) ==
    IF incomplete = <<>> THEN [exists |-> FALSE, rows |-> <<>>]
    ELSE [exists |-> TRUE,
          rows |-> [i \in 1..Len(incomplete) |->
                      [student_id |-> incomplete[i].student_id,
                       missing_documents |-> incomplete[i].missing_documents,
                       found_documents |-> incomplete[i].found_documents,
                       error |-> incomplete[i].error]]]

\* mutant of DictPut: the rows are kept in a list, not keyed by student id
DictPutAppend(rows, row) == Append(rows, row)

\* existing_students[student_id] = row, a dict in insertion order
DictPut(rows, row) ==
    IF \E k \in 1..Len(rows) : rows[k].student_id = row.student_id
    THEN [k \in 1..Len(rows) |->
            IF rows[k].student_id = row.student_id THEN row ELSE rows[k]]
    ELSE Append(rows, row)

RECURSIVE DictPutAll(_, _)
DictPutAll(rows, new) ==
    IF new = <<>> THEN rows
    ELSE DictPutAll(DictPut(rows, new[1]), Tail(new))

RECURSIVE InsertRow(_, _)
InsertRow(r, s) ==
    IF s = <<>> THEN <<r>>
    ELSE IF StrLess(r.student_id, s[1].student_id) THEN <<r>> \o s
    ELSE <<s[1]>> \o InsertRow(r, Tail(s))

\* mutant of SortedRows: the rows are written in dict order
UnsortedRows(rows) == rows

\* for student_id in sorted(existing_students.keys()): writer.writerow(...)
RECURSIVE SortedRows(_)
SortedRows(rows) ==
    IF rows = <<>> THEN <<>>
    ELSE InsertRow(rows[1], SortedRows(Tail(rows)))

\* the ledger rewritten with the new rows merged in
MergeLedger(old, new) == SortedRows(DictPutAll(DictPutAll(<<>>, old), new))

\* mutant of ExportCompletedStudentsCsv: the existing rows are not read
ExportCompletedOverwrite(old, completed) ==
    IF completed = <<>> THEN old
    ELSE SortedRows(DictPutAll(<<>>, completed))

\* export_completed_students_csv: the file after the call
ExportCompletedStudentsCsv(old, completed) ==
    IF completed = <<>> THEN old
    ELSE MergeLedger(old, completed)

\* ---------------------------------------------------- upload_created_files
\* str(int(s)): pandas reads the Student ID column as integers
RECURSIVE IntStr(_)
IntStr(s) ==
    IF Len(s) > 1 /\ s[1] = 0 THEN IntStr(Tail(s)) ELSE s

\* get_previously_uploaded_files
GetPreviouslyUploadedFiles(rows) ==
    [i \in 1..Len(rows) |-> IntStr(rows[i].student_id)]

\* file_path.split('\\')[1].split('_')[0].strip()
StudentIdOfPath(path) == path

HttpOk == 200
HttpStatuses == {200, 500}

\* the loop over created_files, from file number k on
RECURSIVE UploadLoop(_, _, _, _, _, _)
UploadLoop(paths, responses, previous, now, k, acc) ==
    IF k > Len(paths) THEN acc
    ELSE LET sid == StudentIdOfPath(paths[k]) IN
         UploadLoop(paths, responses, previous, now, k + 1,
            IF sid \in Range(previous) THEN acc
            ELSE IF responses[k] # HttpOk
                 THEN [acc EXCEPT !.posted = Append(@, paths[k])]
            ELSE [acc EXCEPT
                    !.posted = Append(@, paths[k]),
                    !.success_files = Append(@, paths[k]),
                    !.newly_uploaded = Append(@,
                        [student_id |-> sid, completed_date |-> now])])

UploadResult(paths, responses, previous, now) ==
    UploadLoop(paths, responses, previous, now, 1,
        [posted |-> <<>>, success_files |-> <<>>, newly_uploaded |-> <<>>])

\* ------------------------------------------------------------------ state
VARIABLES
    pc,                  \* position of the program
    files,               \* the PDF files read: <<[pages, readable]>>, path = index
    student_page_map,    \* _process_pdf_file: the anchor pages by student
    documents,           \* the DocumentInfo list built from the files
    student_documents,   \* process_pdfs(): the documents grouped by student
    created_files,       \* create_combined_pdfs: paths of the combined PDFs
    incomplete_students, \* create_combined_pdfs: the incomplete/error report
    completed_students,  \* create_combined_pdfs: the students combined
    written,             \* the combined PDFs written by this run
    results,             \* the dict run() returns
    missing_csv,         \* out/missing_paperwork - <today>.csv
    ledger,              \* out/completed_students.csv
    clock,               \* number of the current invocation (datetime.now())
    previous_student_ids, \* upload_created_files: the ids read from the ledger
    posted,              \* files posted to /docs/uploadGeneral by this run
    success_files,       \* upload_created_files: its return value
    combine_env,         \* what the file system did during create_combined_pdfs
    page_result,         \* the value returned for a single page
    ledger_before        \* out/completed_students.csv when main() was started

vars == <<pc, files, student_page_map, documents, student_documents,
          created_files, incomplete_students, completed_students, written,
          results, missing_csv, ledger, clock, previous_student_ids, posted,
          success_files, combine_env, page_result, ledger_before>>

runVars == <<student_documents, created_files, incomplete_students,
             completed_students, written, results, missing_csv, ledger, clock,
             previous_student_ids, posted, success_files, combine_env,
             page_result, ledger_before>>

NoResults == [status |-> "NONE"]
NoCsv == [exists |-> FALSE, rows |-> <<>>]
NoEnv == CombineEnv({}, {}, {})

InitRun ==
    /\ student_documents = <<>>
    /\ created_files = <<>>
    /\ incomplete_students = <<>>
    /\ completed_students = <<>>
    /\ written = <<>>
    /\ results = NoResults
    /\ missing_csv = NoCsv
    /\ ledger = <<>>
    /\ clock = 0
    /\ previous_student_ids = <<>>
    /\ posted = <<>>
    /\ success_files = <<>>
    /\ combine_env = NoEnv
    /\ page_result = <<>>
    /\ ledger_before = <<>>

\* ------------------------------------- the boundary resolver on one file
ResolverPath == 1

InitResolve ==
    /\ pc = "classify"
    /\ \E pages \in SeqsUpTo(ResolverPages, MaxPages) :
          files = <<[pages |-> pages, readable |-> TRUE]>>
    /\ student_page_map = <<>>
    /\ documents = <<>>
    /\ InitRun

\* the page loop of _process_pdf_file
ClassifyPages ==
    /\ pc = "classify"
    /\ student_page_map' = StudentPageMap(files[ResolverPath].pages)
    /\ pc' = "resolve"
    /\ UNCHANGED <<files, documents, runVars>>

\* _create_documents_from_student_pages
ResolvePages ==
    /\ pc = "resolve"
    /\ documents' = CreateDocumentsFromStudentPages(
                        ResolverPath, files[ResolverPath].pages, student_page_map)
    /\ pc' = "resolved"
    /\ UNCHANGED <<files, student_page_map, runVars>>

NextResolve == ClassifyPages \/ ResolvePages

SpecResolve == InitResolve /\ [][NextResolve]_vars

\* ------------------------------------- the two functions of a single page
\* the digits a label can be followed by: none, too few, an id, too many
IdLong == <<1, 0, 0, 0, 0, 7>>
DigitRuns == {NoId, <<1, 0, 0, 0>>, IdA, IdB, IdLong, <<0, 2, 0, 0, 0, 0, 5>>}

\* the markers of some of the types, in any order of occurrence
MarkOrders ==
    {m \in SeqsUpTo(DocTypes, Len(DOCUMENT_PATTERNS)) :
        \A i, j \in 1..Len(m) : m[i] = m[j] => i = j}

\* every text the patterns tell apart
AllPages ==
    {Page(m, en, alt, marker, sig, ok) :
        m \in MarkOrders, en \in DigitRuns, alt \in DigitRuns,
        marker \in BOOLEAN, sig \in BOOLEAN, ok \in BOOLEAN}

\* the candidate ids the resolver asks about
CandidateIds == StudentIds \cup {IdLong}

InitPage ==
    /\ pc = "page"
    /\ \E pg \in AllPages : files = <<[pages |-> <<pg>>, readable |-> TRUE]>>
    /\ student_page_map = <<>>
    /\ documents = <<>>
    /\ InitRun

\* page_info = self._identify_document_and_student(text)
IdentifyPage ==
    /\ pc = "page"
    /\ files[ResolverPath].pages[1].ok
    /\ page_result' = [op |-> "identify",
                       value |-> IdentifyDocumentAndStudent(files[ResolverPath].pages[1])]
    /\ pc' = "identified"
    /\ UNCHANGED <<files, student_page_map, documents, student_documents,
                   created_files, incomplete_students, completed_students,
                   written, results, missing_csv, ledger, clock,
                   previous_student_ids, posted, success_files, combine_env,
                   ledger_before>>

\* self._check_page_belongs_to_student(pdf_path, page_num, student_id)
CheckPage ==
    /\ pc = "page"
    /\ \E sid \in CandidateIds, page_num \in 0..1 :
          page_result' = [op |-> "check", student_id |-> sid, page_num |-> page_num,
                          value |-> CheckPageBelongsToStudent(
                                       files[ResolverPath].pages, page_num, sid)]
    /\ pc' = "checked"
    /\ UNCHANGED <<files, student_page_map, documents, student_documents,
                   created_files, incomplete_students, completed_students,
                   written, results, missing_csv, ledger, clock,
                   previous_student_ids, posted, success_files, combine_env,
                   ledger_before>>

NextPage == IdentifyPage \/ CheckPage

SpecPage == InitPage /\ [][NextPage]_vars

\* ----------------------------------------------------------------- main()
\* the input directory: a file that cannot be opened, a file whose processing
\* raises after its anchor page was read, and readable files with pages
RunFiles ==
    {[pages |-> <<>>, readable |-> FALSE],
     [pages |-> <<AnchorPage(Teacher, IdA)>>, readable |-> FALSE]}
        \cup {[pages |-> p, readable |-> TRUE] :
                 p \in SeqsUpTo(RunPages, MaxRunPages) \ {<<>>}}

RECURSIVE TotalPages(_)
TotalPages(fs) ==
    IF fs = <<>> THEN 0 ELSE Len(fs[1].pages) + TotalPages(Tail(fs))

RunInputs ==
    {fs \in SeqsUpTo(RunFiles, MaxFiles) : TotalPages(fs) <= MaxRunPages}

Init ==
    /\ pc = "idle"
    /\ files = <<>>
    /\ student_page_map = <<>>
    /\ documents = <<>>
    /\ InitRun

\* main() is started on some content of the input directory:
\* run(): student_documents = self.process_pdfs()
RunProcessPdfs ==
    /\ pc = "idle"
    /\ clock < MaxRuns
    /\ \E fs \in RunInputs :
          /\ files' = fs
          /\ documents' = AllDocuments(fs, 1)
          /\ student_documents' = ProcessPdfs(fs)
    /\ clock' = clock + 1
    /\ ledger_before' = ledger
    /\ pc' = "processed"
    /\ UNCHANGED <<student_page_map, created_files, incomplete_students,
                   completed_students, written, results, missing_csv, ledger,
                   previous_student_ids, posted, success_files, combine_env,
                   page_result>>

\* run(): if not student_documents: return NO_DOCUMENTS
ReturnNoDocuments ==
    /\ pc = "processed"
    /\ student_documents = <<>>
    /\ results' = [status |-> "NO_DOCUMENTS", total_students |-> 0,
                   created_files |-> <<>>]
    /\ pc' = "returned"
    /\ UNCHANGED <<files, student_page_map, documents, student_documents,
                   created_files, incomplete_students, completed_students,
                   written, missing_csv, ledger, clock, previous_student_ids,
                   posted, success_files, combine_env, page_result, ledger_before>>

\* run(): self.create_combined_pdfs(student_documents)
CreateCombinedPdfs ==
    /\ pc = "processed"
    /\ student_documents # <<>>
    /\ \E env \in CombineEnvs(files, student_documents) :
          LET r == CreateCombinedPdfsResult(files, env, clock, student_documents) IN
          /\ created_files' = r.created_files
          /\ incomplete_students' = r.incomplete_students
          /\ completed_students' = r.completed_students
          /\ written' = r.written
          /\ combine_env' = env
    /\ pc' = "combined"
    /\ UNCHANGED <<files, student_page_map, documents, student_documents,
                   results, missing_csv, ledger, clock, previous_student_ids,
                   posted, success_files, page_result, ledger_before>>

\* run(): self.export_missing_paperwork_csv(incomplete_students)
ExportMissing ==
    /\ pc = "combined"
    /\ missing_csv' = ExportMissingPaperworkCsv(incomplete_students)
    /\ pc' = "missing_exported"
    /\ UNCHANGED <<files, student_page_map, documents, student_documents,
                   created_files, incomplete_students, completed_students,
                   written, results, ledger, clock, previous_student_ids,
                   posted, success_files, combine_env, page_result, ledger_before>>

\* mutant of RunStatus: no combined PDF is reported as no documents
RunStatusNoDocuments(created) ==
    IF created # <<>> THEN "SUCCESS" ELSE "NO_DOCUMENTS"

\* the status run() computes from created_files
RunStatus(created) ==
    IF created # <<>> THEN "SUCCESS" ELSE "INCOMPLETE_DOCUMENTS"

\* run(): self.export_completed_students_csv(completed_students), return
ExportCompleted ==
    /\ pc = "missing_exported"
    /\ ledger' = ExportCompletedStudentsCsv(ledger, completed_students)
    /\ results' = [status |-> RunStatus(created_files),
                   total_students |-> Len(student_documents),
                   complete_students |-> Len(created_files),
                   incomplete_students |-> Len(incomplete_students),
                   created_files |-> created_files]
    /\ pc' = "returned"
    /\ UNCHANGED <<files, student_page_map, documents, student_documents,
                   created_files, incomplete_students, completed_students,
                   written, missing_csv, clock, previous_student_ids, posted,
                   success_files, combine_env, page_result, ledger_before>>

\* main(): upload_created_files(created_files) after a SUCCESS
UploadCreatedFiles ==
    /\ pc = "returned"
    /\ results.status = "SUCCESS"
    /\ \E responses \in [1..Len(results.created_files) -> HttpStatuses] :
          LET previous == GetPreviouslyUploadedFiles(ledger)
              r == UploadResult(results.created_files, responses, previous, clock)
          IN  /\ previous_student_ids' = previous
              /\ posted' = r.posted
              /\ success_files' = r.success_files
              /\ ledger' = IF r.newly_uploaded # <<>>
                           THEN MergeLedger(ledger, r.newly_uploaded)
                           ELSE ledger
    /\ pc' = "uploaded"
    /\ UNCHANGED <<files, student_page_map, documents, student_documents,
                   created_files, incomplete_students, completed_students,
                   written, results, missing_csv, clock, combine_env,
                   page_result, ledger_before>>

\* main() after the upload: lines 253-274 run to the end
MainAfterUpload ==
    /\ pc = "uploaded"
    /\ pc' = "done"
    /\ UNCHANGED <<files, student_page_map, documents, runVars>>

\* main() after another status: created_files is not bound at line 254
MainWithoutUpload ==
    /\ pc = "returned"
    /\ results.status # "SUCCESS"
    /\ pc' = "crashed"
    /\ UNCHANGED <<files, student_page_map, documents, runVars>>

\* the process ends: only the files under out/ outlive it
ProcessExit ==
    /\ pc \in {"done", "crashed"}
    /\ pc' = "idle"
    /\ files' = <<>>
    /\ documents' = <<>>
    /\ student_documents' = <<>>
    /\ created_files' = <<>>
    /\ incomplete_students' = <<>>
    /\ completed_students' = <<>>
    /\ written' = <<>>
    /\ results' = NoResults
    /\ previous_student_ids' = <<>>
    /\ posted' = <<>>
    /\ success_files' = <<>>
    /\ combine_env' = NoEnv
    /\ ledger_before' = <<>>
    /\ UNCHANGED <<student_page_map, missing_csv, ledger, clock, page_result>>

Next ==
    \/ RunProcessPdfs
    \/ ReturnNoDocuments
    \/ CreateCombinedPdfs
    \/ ExportMissing
    \/ ExportCompleted
    \/ UploadCreatedFiles
    \/ MainAfterUpload
    \/ MainWithoutUpload
    \/ ProcessExit

Spec == Init /\ [][Next]_vars

\* ------------------------------------------------ resolver: what is read
\* the anchor pages of student k of the map, and the student's first one
AnchorsOf(k) == Range(PageNums(student_page_map[k]))
FirstAnchor(k) == MinOf(PageNums(student_page_map[k]))

\* every page index in a DocumentInfo of the student
DocPagesOf(sid) ==
    UNION {Range(documents[d].pages) :
              d \in {e \in 1..Len(documents) : documents[e].student_id = sid}}

\* the continuation pages assigned to student k
AssignedTo(k) == DocPagesOf(student_page_map[k].student_id) \ AnchorsOf(k)

\* C1 (as stated): for students A, B of a file with A's first anchor page
\* before B's, no page index in a DocumentInfo of A, anchor or continuation,
\* is >= B's first anchor page.
C1_AllPagesBeforeNext ==
    pc = "resolved" =>
        \A a, b \in 1..Len(student_page_map) :
            FirstAnchor(a) < FirstAnchor(b) =>
                \A p \in DocPagesOf(student_page_map[a].student_id) :
                    p < FirstAnchor(b)

\* C1 (amended): for students A, B of a file with A's first anchor page
\* before B's, no continuation page assigned to A is >= B's first anchor
\* page; the pages of A at or after it are anchor pages carrying A's own id.
C1_ContinuationBeforeNext ==
    pc = "resolved" =>
        \A a, b \in 1..Len(student_page_map) :
            FirstAnchor(a) < FirstAnchor(b) =>
                \A p \in DocPagesOf(student_page_map[a].student_id) :
                    p >= FirstAnchor(b) => p \in AnchorsOf(a)

\* C1 witness: A has an anchor page after B's first one and a continuation
\* page of its own, and B's range holds a page that passes the check.
C1_Witness ==
    /\ pc = "resolved"
    /\ \E a, b \in 1..Len(student_page_map) :
          /\ FirstAnchor(a) < FirstAnchor(b)
          /\ AssignedTo(a) # {}
          /\ \E p \in AnchorsOf(a) : p > FirstAnchor(b)

\* C10: every DocumentInfo has a non-empty page list, strictly ascending
\* (so pairwise distinct), within 0..total_pages-1 of the file it names, and
\* page_count is the length of the list.
C10_DocumentInfoWellFormed ==
    pc = "resolved" =>
        \A d \in 1..Len(documents) :
            LET doc == documents[d] IN
            /\ doc.pages # <<>>
            /\ \A i \in 1..Len(doc.pages) - 1 : doc.pages[i] < doc.pages[i + 1]
            /\ doc.file_path \in 1..Len(files)
            /\ \A i \in 1..Len(doc.pages) :
                  doc.pages[i] \in 0..Len(files[doc.file_path].pages) - 1
            /\ doc.page_count = Len(doc.pages)

\* C10 witness: a DocumentInfo whose continuation page lies between two of
\* its anchor pages, so the page list was appended out of order.
C10_Witness ==
    /\ pc = "resolved"
    /\ \E k \in 1..Len(student_page_map) :
          \E p \in AssignedTo(k) : \E q \in AnchorsOf(k) :
              /\ p < q
              /\ \E d \in 1..Len(documents) :
                    {p, q} \subseteq Range(documents[d].pages)

\* -------------------------------------------------- main(): what is read
LedgerIds(rows) == {rows[i].student_id : i \in 1..Len(rows)}

\* create_combined_pdfs has returned in this run
Combined ==
    pc \in {"combined", "missing_exported", "returned", "uploaded", "done", "crashed"}
        /\ student_documents # <<>>

\* the (source file, page index) pairs of a list of DocumentInfo
PagePairs(docs) ==
    UNION {{<<docs[d].file_path, docs[d].pages[i]>> : i \in 1..Len(docs[d].pages)} :
              d \in 1..Len(docs)}

DocsOfStudent(sid) ==
    student_documents[CHOOSE k \in 1..Len(student_documents) :
                          student_documents[k].student_id = sid].docs

\* C2: for every student reported complete, the pages written to the
\* student's combined PDF are exactly the (source file, page index) pairs of
\* the student's DocumentInfo entries: none missing, none twice, none of
\* another student's DocumentInfo.
C2_CombinedPdfExact ==
    Combined =>
        \A w \in 1..Len(written) :
            LET sid == StudentIdOfPath(written[w].path)
                want == PagePairs(DocsOfStudent(sid))
            IN  /\ sid \in Range(created_files)
                /\ Range(written[w].pages) = want
                /\ Len(written[w].pages) = Cardinality(want)
                /\ \A k \in 1..Len(student_documents) :
                      student_documents[k].student_id # sid =>
                          PagePairs(student_documents[k].docs)
                              \cap Range(written[w].pages) = {}

\* C3: a student is combined only if all three required types were found;
\* every student lacking a required type is listed once in
\* incomplete_students with missing_documents = required minus found, and
\* has no entry in created_files.
C3_RoutedByCompleteness ==
    Combined =>
        \A k \in 1..Len(student_documents) :
            LET sid == student_documents[k].student_id
                found == FoundDocTypes(student_documents[k].docs)
                listed == {i \in 1..Len(incomplete_students) :
                              incomplete_students[i].student_id = sid}
            IN  /\ (OutputPath(sid) \in Range(created_files)
                       \/ sid \in LedgerIds(completed_students))
                      => required_docs \subseteq found
                /\ ~(required_docs \subseteq found) =>
                      /\ Cardinality(listed) = 1
                      /\ \A i \in listed :
                            incomplete_students[i].missing_documents
                                = required_docs \ found
                      /\ OutputPath(sid) \notin Range(created_files)
                      /\ \A w \in 1..Len(written) : written[w].path # OutputPath(sid)

\* C3 witness: the student misses exactly the Reclassification Meeting, is
\* listed with that missing document and has no created file.
C3_Witness ==
    /\ Combined
    /\ \E i \in 1..Len(incomplete_students) :
          /\ incomplete_students[i].missing_documents = {Meeting}
          /\ incomplete_students[i].found_documents = {Teacher, Notification}
          /\ OutputPath(incomplete_students[i].student_id) \notin Range(created_files)

\* C4: the ledger has one row per student id, and exporting the same list
\* of completed students a second time leaves the set of ids (and the
\* number of rows) as it is after the first export.
C4_LedgerIdempotent ==
    /\ \A i, j \in 1..Len(ledger) :
          ledger[i].student_id = ledger[j].student_id => i = j
    /\ pc = "returned" =>
          LET again == ExportCompletedStudentsCsv(ledger, completed_students) IN
          /\ LedgerIds(again) = LedgerIds(ledger)
          /\ Len(again) = Len(ledger)

\* C4 witness: an export of a student whose id the ledger held already from
\* an earlier run, next to another student's row.
C4_Witness ==
    /\ pc = "returned"
    /\ clock > 1
    /\ completed_students # <<>>
    /\ Len(ledger) > 1

\* C5 (as stated): the rows of the ledger are in strictly ascending order of
\* the numbers the student ids denote.
C5_LedgerNumericOrder ==
    \A i \in 1..Len(ledger) - 1 :
        NumValue(ledger[i].student_id) < NumValue(ledger[i + 1].student_id)

\* C5 (amended): the rows of the ledger are in strictly ascending order of
\* the student ids compared as strings, character by character.
C5_LedgerStringOrder ==
    \A i \in 1..Len(ledger) - 1 :
        StrLess(ledger[i].student_id, ledger[i + 1].student_id)

\* C5 witness: a ledger written with a 5-digit and a 6-digit id.
C5_Witness ==
    \E i, j \in 1..Len(ledger) :
        Len(ledger[i].student_id) < Len(ledger[j].student_id)

\* C6: an export with a non-empty list keeps the rows of the other ids,
\* holds the new row of every id of the list and adds no other id; an export
\* with an empty list leaves the ledger as it is; no step loses an id.
C6_LedgerCumulative ==
    [][/\ (pc = "missing_exported" /\ pc' = "returned") =>
              IF completed_students = <<>> THEN ledger' = ledger
              ELSE /\ \A i \in 1..Len(ledger) :
                         ledger[i].student_id \notin LedgerIds(completed_students)
                             => ledger[i] \in Range(ledger')
                   /\ \A i \in 1..Len(completed_students) :
                         completed_students[i] \in Range(ledger')
                   /\ LedgerIds(ledger')
                         = LedgerIds(ledger) \cup LedgerIds(completed_students)
       /\ LedgerIds(ledger) \subseteq LedgerIds(ledger')]_vars

\* C6 witness: after an export the ledger holds a row of an earlier run
\* next to a row of this run.
C6_Witness ==
    /\ pc = "returned"
    /\ completed_students # <<>>
    /\ \E i, j \in 1..Len(ledger) :
          /\ ledger[i].completed_date < clock
          /\ ledger[j].completed_date = clock

C8_NoRepostOfLedgerIds ==
    [][(pc = "returned" /\ pc' = "uploaded") =>
          /\ \A i \in 1..Len(posted') :
                StudentIdOfPath(posted'[i]) \notin LedgerIds(ledger)
          /\ Range(success_files') \subseteq Range(posted')]_vars

\* the files hold no page that names both a document type and a student
NoAnchorPage ==
    \A f \in 1..Len(files) :
        files[f].readable => StudentPageMap(files[f].pages) = <<>>

\* C9: run() returns one of three statuses: NO_DOCUMENTS exactly when no
\* student has a DocumentInfo (no readable input page carries a type and an
\* id), SUCCESS exactly when a combined PDF was created, and
\* INCOMPLETE_DOCUMENTS exactly when a student was found and none was created.
C9_StatusOfRun ==
    pc = "returned" =>
        /\ results.status \in {"NO_DOCUMENTS", "SUCCESS", "INCOMPLETE_DOCUMENTS"}
        /\ (results.status = "NO_DOCUMENTS") = (documents = <<>>)
        /\ (documents = <<>>) = NoAnchorPage
        /\ (results.status = "SUCCESS") = (written # <<>>)
        /\ (results.status = "INCOMPLETE_DOCUMENTS")
              = (documents # <<>> /\ written = <<>>)

\* C9 witness: a student has all three documents but the combined PDF could
\* not be written, and run() returns INCOMPLETE_DOCUMENTS.
C9_Witness ==
    /\ pc = "returned"
    /\ results.status = "INCOMPLETE_DOCUMENTS"
    /\ \E i \in 1..Len(incomplete_students) : incomplete_students[i].error

\* ------------------------------------------ a single page: what is read
ThePage == files[ResolverPath].pages[1]

\* a 5- or 6-digit number follows the label
HasId(run) == Len(run) >= 5

\* C16: _identify_document_and_student returns a result exactly when a
\* document-type pattern matches and a 5- or 6-digit number follows one of
\* the id labels; without a type marker there is no result whatever ids the
\* page carries, with a marker and no id there is none either; the type
\* returned is one whose pattern matches and the id has 5 or 6 digits.
C16_IdentifyIffTypeAndId ==
    (pc = "identified" /\ page_result.op = "identify") =>
        LET r == page_result.value IN
        /\ (r # <<>>) = (ThePage.marks # <<>> /\ (HasId(ThePage.en) \/ HasId(ThePage.alt)))
        /\ ThePage.marks = <<>> => r = <<>>
        /\ (~HasId(ThePage.en) /\ ~HasId(ThePage.alt)) => r = <<>>
        /\ r # <<>> =>
              /\ r[1].document_type \in Range(ThePage.marks)
              /\ Len(r[1].student_id) \in {5, 6}
              /\ \A i \in 1..Len(r[1].student_id) : r[1].student_id[i] \in 0..9
              /\ IsPrefix(r[1].student_id, ThePage.en)
                    \/ IsPrefix(r[1].student_id, ThePage.alt)

\* C16 witness: a page with a type marker and seven digits after the label
\* yields an id of six digits.
C16_Witness ==
    /\ pc = "identified"
    /\ Len(ThePage.en) = 7
    /\ page_result.value # <<>>
    /\ Len(page_result.value[1].student_id) = 6

\* rule (a): the candidate id follows one of the id labels
RuleA(pg, sid) == IsPrefix(sid, pg.en) \/ IsPrefix(sid, pg.alt)

\* an id that is not the candidate's follows one of the id labels
OtherIdOnPage(pg, sid) ==
    \/ HasId(pg.en) /\ ~IsPrefix(sid, pg.en)
    \/ HasId(pg.alt) /\ ~IsPrefix(sid, pg.alt)

\* C20 (as stated): the check returns true exactly when the page can be
\* read and (a) the candidate id follows an id label, or (b) a translation
\* marker occurs, or (c) a signature keyword occurs and no other student's
\* id follows any of the id labels.
C20_BelongsRulesAnyLabel ==
    (pc = "checked" /\ page_result.op = "check") =>
        LET sid == page_result.student_id
            readable == page_result.page_num = 0 /\ ThePage.ok
        IN  page_result.value
                = (readable /\ (\/ RuleA(ThePage, sid)
                                \/ ThePage.marker
                                \/ ThePage.sig /\ ~OtherIdOnPage(ThePage, sid)))

\* C20 (amended): the check returns true exactly when the page can be read
\* and (a) the candidate id follows an id label, or (b) a translation marker
\* occurs, or (c) a signature keyword occurs and no 5- or 6-digit number
\* follows the English "Student ID" label; a page that cannot be read, or
\* an index past the end of the file, yields false.
C20_BelongsRulesEnglishLabel ==
    (pc = "checked" /\ page_result.op = "check") =>
        LET sid == page_result.student_id
            readable == page_result.page_num = 0 /\ ThePage.ok
        IN  /\ ~readable => ~page_result.value
            /\ (readable /\ RuleA(ThePage, sid)) => page_result.value
            /\ (readable /\ ThePage.marker) => page_result.value
            /\ (readable /\ ThePage.sig /\ ~HasId(ThePage.en)) => page_result.value
            /\ page_result.value =>
                  \/ RuleA(ThePage, sid)
                  \/ ThePage.marker
                  \/ ThePage.sig /\ ~HasId(ThePage.en)

\* C20 witness: a signature page with another student's id after the
\* English label is refused, rule (c) being the only one in question.
C20_Witness ==
    /\ pc = "checked"
    /\ page_result.page_num = 0
    /\ ThePage.ok /\ ThePage.sig /\ ~ThePage.marker
    /\ HasId(ThePage.en)
    /\ ~RuleA(ThePage, page_result.student_id)
    /\ ~page_result.value

\* ------------------------------------- resolver: pages, groups, distances
FilePages == files[ResolverPath].pages

\* the pages on which a type and an id were found, of any student
AllAnchors == AnchorPageNums(student_page_map)

\* the largest element of a non-empty set of page indices
SetMax(S) == CHOOSE x \in S : \A y \in S : y <= x

\* the documents of a student, and the anchor pages of one of its types
DocsOf(sid) == {d \in 1..Len(documents) : documents[d].student_id = sid}

AnchorsOfType(sid, t) ==
    UNION {{student_page_map[k].pages[i].page_num :
               i \in {j \in 1..Len(student_page_map[k].pages) :
                         student_page_map[k].pages[j].doc_type = t}} :
              k \in {j \in 1..Len(student_page_map) :
                        student_page_map[j].student_id = sid}}

\* range(min_page, safe_upper_bound + 1) of student k
InSafeRange(k, p) ==
    /\ FirstAnchor(k) <= p
    /\ p < Len(FilePages)
    /\ \A b \in 1..Len(student_page_map) :
          FirstAnchor(b) > FirstAnchor(k) => p < FirstAnchor(b)

\* C11: a page that is not an anchor page is in no DocumentInfo of a student
\* whose first anchor page has a greater index than the page.
C11_NeverAssignedToLaterStudent ==
    pc = "resolved" =>
        \A k \in 1..Len(student_page_map) :
            \A p \in DocPagesOf(student_page_map[k].student_id) \ AllAnchors :
                ~(FirstAnchor(k) > p)

\* C11 witness: the anchors of A precede a page without type and id, the
\* first anchor of B follows it, and the page was given to A.
C11_Witness ==
    /\ pc = "resolved"
    /\ \E a, b \in 1..Len(student_page_map) :
          \E p \in AssignedTo(a) :
              /\ \A q \in AnchorsOf(a) : q < p
              /\ Cardinality(AnchorsOf(a)) = 2
              /\ p < FirstAnchor(b)

\* page i is a Notification anchor of student k and page i + 1 is a readable
\* page with a translation marker that is not an anchor page
MarkerAfterNotification(k, i) ==
    /\ i \in AnchorsOfType(student_page_map[k].student_id, Notification)
    /\ i + 1 < Len(FilePages)
    /\ i + 1 \notin AllAnchors
    /\ FilePages[i + 2].ok
    /\ FilePages[i + 2].marker

InNotificationGroup(k, i) ==
    \E d \in DocsOf(student_page_map[k].student_id) :
        /\ documents[d].document_type = Notification
        /\ {i, i + 1} \subseteq Range(documents[d].pages)

\* C12 (as stated): a non-anchor page with a translation marker right after
\* a Notification anchor page of student S is in S's Notification
\* DocumentInfo together with that anchor page.
C12_MarkerPageJoinsNotification ==
    pc = "resolved" =>
        \A k \in 1..Len(student_page_map) : \A i \in 0..Len(FilePages) :
            MarkerAfterNotification(k, i) => InNotificationGroup(k, i)

\* C12 (amended): the same, when no student whose first anchor page follows
\* S's first anchor page has its first anchor page before that Notification
\* anchor page.
C12_MarkerPageJoinsInRange ==
    pc = "resolved" =>
        \A k \in 1..Len(student_page_map) : \A i \in 0..Len(FilePages) :
            (MarkerAfterNotification(k, i) /\ InSafeRange(k, i))
                => InNotificationGroup(k, i)

\* C12 witness: the marker page follows a Notification anchor that is not
\* the student's first anchor page, and another student follows.
C12_Witness ==
    /\ pc = "resolved"
    /\ \E k \in 1..Len(student_page_map) : \E i \in 1..Len(FilePages) :
          /\ MarkerAfterNotification(k, i)
          /\ InSafeRange(k, i)
          /\ FirstAnchor(k) < i
          /\ InNotificationGroup(k, i)
          /\ Len(student_page_map) = 2

\* C15: a page whose text extraction raises is no anchor page and is in no
\* DocumentInfo; every other page that carries a type and an id is an anchor
\* page of that student and type and is in the DocumentInfo of the two.
C15_BrokenPageAbsent ==
    pc = "resolved" =>
        \A p \in 0..Len(FilePages) - 1 :
            IF ~FilePages[p + 1].ok
            THEN /\ p \notin AllAnchors
                 /\ \A d \in 1..Len(documents) : p \notin Range(documents[d].pages)
            ELSE LET info == IdentifyDocumentAndStudent(FilePages[p + 1]) IN
                 info # <<>> =>
                    /\ p \in AnchorsOfType(info[1].student_id, info[1].document_type)
                    /\ \E d \in DocsOf(info[1].student_id) :
                          /\ documents[d].document_type = info[1].document_type
                          /\ p \in Range(documents[d].pages)

\* C15 witness: a page that raises lies inside a student's range, an anchor
\* page after it is in a DocumentInfo and a later page was assigned.
C15_Witness ==
    /\ pc = "resolved"
    /\ \E k \in 1..Len(student_page_map) : \E p \in 0..Len(FilePages) - 1 :
          /\ ~FilePages[p + 1].ok
          /\ InSafeRange(k, p)
          /\ \E q \in AnchorsOf(k) : q > p
          /\ \E q \in AssignedTo(k) : q > p

\* C17: every non-anchor page of a DocumentInfo lies at most 3 pages
\* (Notification) or 1 page (the other types) after the latest anchor page
\* of that student and type before it.
C17_WithinCeilingOfAnchor ==
    pc = "resolved" =>
        \A d \in 1..Len(documents) :
            \A p \in Range(documents[d].pages) \ AllAnchors :
                LET before == {q \in AnchorsOfType(documents[d].student_id,
                                                   documents[d].document_type) : q < p}
                IN  /\ before # {}
                    /\ p - SetMax(before) <= MaxDistance(documents[d].document_type)

\* every page index in any DocumentInfo
AllDocPages == UNION {Range(documents[d].pages) : d \in 1..Len(documents)}

\* C18 (as stated): a non-anchor page joins the group that holds the closest
\* page before it among the pages of all groups of the file, of any student.
C18_NearestOfAnyStudent ==
    pc = "resolved" =>
        \A d \in 1..Len(documents) :
            \A p \in Range(documents[d].pages) \ AllAnchors :
                LET placed == {q \in AllDocPages : q < p} IN
                /\ placed # {}
                /\ SetMax(placed) \in Range(documents[d].pages)

\* C18 (amended): a non-anchor page joins the group that holds the closest
\* page before it among the pages of the groups of the same student; no page
\* of another document type of that student lies in between.
C18_NearestOfSameStudent ==
    pc = "resolved" =>
        \A d \in 1..Len(documents) :
            \A p \in Range(documents[d].pages) \ AllAnchors :
                LET placed == {q \in DocPagesOf(documents[d].student_id) : q < p} IN
                /\ placed # {}
                /\ SetMax(placed) \in Range(documents[d].pages)

\* C18 witness: a page was assigned to a student two of whose groups hold
\* pages before it, the nearer one being the group that was created first.
C18_Witness ==
    /\ pc = "resolved"
    /\ \E d, e \in 1..Len(documents) :
          /\ d < e
          /\ documents[d].student_id = documents[e].student_id
          /\ \E p \in Range(documents[d].pages) \ AllAnchors :
                \E q \in Range(documents[e].pages) : q < p

\* the page is looked at for student k: in the safe range, no anchor page,
\* and the belongs-to-student check passes
Candidate(k, p) ==
    /\ InSafeRange(k, p)
    /\ p \notin AllAnchors
    /\ CheckPageBelongsToStudent(FilePages, p, student_page_map[k].student_id)

\* C19 (as stated): a candidate page is assigned to the student as soon as
\* one of the student's groups has a page before it within that type's own
\* ceiling.
C19_AssignedIfAnyTypeQualifies ==
    pc = "resolved" =>
        \A k \in 1..Len(student_page_map) : \A p \in 0..Len(FilePages) - 1 :
            LET sid == student_page_map[k].student_id IN
            (/\ Candidate(k, p)
             /\ \E d \in DocsOf(sid) : \E q \in Range(documents[d].pages) :
                   q < p /\ p - q <= MaxDistance(documents[d].document_type))
                => p \in DocPagesOf(sid)

\* C19 (amended): a candidate page is assigned to the student exactly when
\* the closest page before it among the student's groups is within the
\* ceiling of the type of the group holding that page.
C19_AssignedIffNearestQualifies ==
    pc = "resolved" =>
        \A k \in 1..Len(student_page_map) : \A p \in 0..Len(FilePages) - 1 :
            LET sid == student_page_map[k].student_id
                placed == {q \in DocPagesOf(sid) : q < p}
            IN  Candidate(k, p) =>
                  (p \in DocPagesOf(sid))
                     = (/\ placed # {}
                        /\ \E d \in DocsOf(sid) :
                              /\ SetMax(placed) \in Range(documents[d].pages)
                              /\ p - SetMax(placed)
                                    <= MaxDistance(documents[d].document_type))

\* C19 witness: a candidate page two pages after a Notification anchor is
\* assigned, and a candidate page two pages after the student's only page,
\* of another type, is not.
C19_Witness ==
    /\ pc = "resolved"
    /\ \E k \in 1..Len(student_page_map) : \E p \in 0..Len(FilePages) - 1 :
          /\ Candidate(k, p)
          /\ p \in DocPagesOf(student_page_map[k].student_id)
          /\ p - 2 \in AnchorsOfType(student_page_map[k].student_id, Notification)
          /\ p - 1 \notin AllDocPages

\* ------------------------------------------------ main(): errors of a unit
\* something went wrong while the student's documents were combined
CombineFailed(k) ==
    \/ student_documents[k].student_id \in combine_env.write_fail
    \/ \E d \in 1..Len(student_documents[k].docs) :
          student_documents[k].docs[d].file_path \in combine_env.unreadable

\* C13: a complete student whose combination met an error (a source file
\* that cannot be read, an output file that cannot be written) is listed in
\* incomplete_students with the error, is in neither created_files nor
\* completed_students, and every student is still routed to one of the lists.
C13_CombineErrorReported ==
    Combined =>
        \A k \in 1..Len(student_documents) :
            LET sid == student_documents[k].student_id
                listed == {i \in 1..Len(incomplete_students) :
                              incomplete_students[i].student_id = sid}
            IN  /\ (OutputPath(sid) \in Range(created_files)) = (listed = {})
                /\ (IsComplete(FoundDocTypes(student_documents[k].docs))
                        /\ CombineFailed(k)) =>
                      /\ \E i \in listed : incomplete_students[i].error
                      /\ OutputPath(sid) \notin Range(created_files)
                      /\ sid \notin LedgerIds(completed_students)

\* C14: an input file whose processing raises contributes no DocumentInfo;
\* every page of the other files that carries a type and an id is in a
\* DocumentInfo of its file, type and student, filed under that student, and
\* the groups hold the documents of one student each.
C14_FailedFileContributesNothing ==
    pc # "idle" =>
        /\ \A f \in 1..Len(files) :
              IF ~files[f].readable
              THEN /\ \A d \in 1..Len(documents) : documents[d].file_path # f
                   /\ \A k \in 1..Len(student_documents) :
                         \A d \in 1..Len(student_documents[k].docs) :
                             student_documents[k].docs[d].file_path # f
              ELSE \A p \in 1..Len(files[f].pages) :
                     LET info == IdentifyDocumentAndStudent(files[f].pages[p]) IN
                     info # <<>> =>
                        \E k \in 1..Len(student_documents) :
                            /\ student_documents[k].student_id = info[1].student_id
                            /\ \E d \in 1..Len(student_documents[k].docs) :
                                  LET doc == student_documents[k].docs[d] IN
                                  /\ doc.file_path = f
                                  /\ doc.document_type = info[1].document_type
                                  /\ p - 1 \in Range(doc.pages)
        /\ \A k \in 1..Len(student_documents) :
              \A d \in 1..Len(student_documents[k].docs) :
                  /\ student_documents[k].docs[d].student_id
                        = student_documents[k].student_id
                  /\ student_documents[k].docs[d] \in Range(documents)
        /\ \A j, k \in 1..Len(student_documents) :
              student_documents[j].student_id = student_documents[k].student_id
                  => j = k

\* C14 witness: the first file raises although it holds an anchor page, and
\* the student of the second file has its documents.
C14_Witness ==
    /\ pc = "processed"
    /\ Len(files) = 2
    /\ ~files[1].readable
    /\ files[1].pages # <<>>
    /\ files[2].readable
    /\ \E d \in 1..Len(documents) : documents[d].file_path = 2
    /\ student_documents # <<>>

\* C21: the type returned for a page is the earliest, in the order Teacher
\* Recommendation Form, Reclassification Meeting, Notification of English
\* Language Program Exit, of the types whose markers occur in the text,
\* wherever in the text the markers occur.
C21_FirstMatchInFixedOrder ==
    (pc = "identified" /\ page_result.op = "identify" /\ page_result.value # <<>>) =>
        LET found == Range(ThePage.marks)
            t == page_result.value[1].document_type
        IN  /\ Teacher \in found => t = Teacher
            /\ (Teacher \notin found /\ Meeting \in found) => t = Meeting
            /\ (Teacher \notin found /\ Meeting \notin found) => t = Notification

\* C21 witness: the Notification marker occurs in the text before the
\* Teacher marker and the page is a Teacher Recommendation Form.
C21_Witness ==
    /\ pc = "identified"
    /\ ThePage.marks = <<Notification, Teacher>>
    /\ page_result.value # <<>>
    /\ page_result.value[1].document_type = Teacher

\* ----------------------------------------- resolver: whose page is whose
\* a 5- or 6-digit id that is not sid follows one of the id labels
CarriesOtherId(pg, sid) ==
    \/ ExtractDigits(pg.en) \notin {NoId, sid}
    \/ ExtractDigits(pg.alt) \notin {NoId, sid}

SafeRange(b, i) == b[i].min_page..b[i].safe_upper_bound

\* C27: the safe ranges of the students of a file are pairwise disjoint and
\* cover exactly the pages from the first anchor page to the last page; a
\* non-anchor page is only ever in a DocumentInfo of the student with the
\* greatest first anchor page not after it, and a non-anchor page before the
\* first anchor page of the file is in no DocumentInfo.
C27_SafeRangesPartition ==
    (pc = "resolved" /\ student_page_map # <<>>) =>
        LET b == StudentBoundaries(student_page_map, Len(FilePages))
            first == CHOOSE x \in AllAnchors : \A y \in AllAnchors : x <= y
        IN  /\ \A i, j \in 1..Len(b) :
                  i # j => SafeRange(b, i) \cap SafeRange(b, j) = {}
            /\ UNION {SafeRange(b, i) : i \in 1..Len(b)}
                  = first..(Len(FilePages) - 1)
            /\ \A k \in 1..Len(student_page_map) :
                  \A p \in DocPagesOf(student_page_map[k].student_id) :
                      IdentifyDocumentAndStudent(FilePages[p + 1]) = <<>>
                          => InSafeRange(k, p)
            /\ \A p \in 0..first : p \in AllDocPages => p \in AllAnchors

\* C27 witness: a signature page lies before the first anchor page of a
\* file of two students, and a page after it was assigned to a student.
C27_Witness ==
    /\ pc = "resolved"
    /\ Len(student_page_map) = 2
    /\ FilePages[1].sig /\ FilePages[1].ok /\ 0 \notin AllAnchors
    /\ \E k \in 1..2 : AssignedTo(k) # {}

\* C28: no page index is in the page lists of two DocumentInfo of a file,
\* and a page on which a type and an id were found is only in the
\* DocumentInfo of that student and type.
C28_PageInOneDocument ==
    pc = "resolved" =>
        /\ \A d, e \in 1..Len(documents) :
              d # e => Range(documents[d].pages) \cap Range(documents[e].pages) = {}
        /\ \A d \in 1..Len(documents) : \A p \in Range(documents[d].pages) :
              LET info == IF FilePages[p + 1].ok
                          THEN IdentifyDocumentAndStudent(FilePages[p + 1])
                          ELSE <<>>
              IN  info # <<>> =>
                     /\ documents[d].student_id = info[1].student_id
                     /\ documents[d].document_type = info[1].document_type

\* C28 witness: an anchor page of one student lies inside the safe range of
\* another, who was given a continuation page.
C28_Witness ==
    /\ pc = "resolved"
    /\ \E a, b \in 1..Len(student_page_map) :
          /\ a # b
          /\ \E p \in AnchorsOf(a) : InSafeRange(b, p)
          /\ AssignedTo(b) # {}

\* ------------------------------------------- main(): the combined PDFs
\* the DocumentInfo of the student that lists the page of a combined PDF
DocOfWritten(sid, pair) ==
    CHOOSE d \in 1..Len(DocsOfStudent(sid)) :
        /\ DocsOfStudent(sid)[d].file_path = pair[1]
        /\ pair[2] \in Range(DocsOfStudent(sid)[d].pages)

TypeOfWritten(sid, pair) == DocsOfStudent(sid)[DocOfWritten(sid, pair)].document_type

\* the place of a type in the order Notification, Meeting, Teacher
PlaceOfType(t) ==
    CASE t = Notification -> 1
      [] t = Meeting -> 2
      [] t = Teacher -> 3

\* C22: in every combined PDF the pages are grouped by document type in the
\* order Notification, Reclassification Meeting, Teacher Recommendation: no
\* page of a later type precedes a page of an earlier type, and the pages of
\* one DocumentInfo are in ascending page-index order, also when the
\* documents come from several source files.
C22_PagesInPriorityOrder ==
    Combined =>
        \A w \in 1..Len(written) :
            LET sid == StudentIdOfPath(written[w].path)
                pages == written[w].pages
            IN  \A i, j \in 1..Len(pages) :
                    i < j =>
                        /\ PlaceOfType(TypeOfWritten(sid, pages[i]))
                              <= PlaceOfType(TypeOfWritten(sid, pages[j]))
                        /\ DocOfWritten(sid, pages[i]) = DocOfWritten(sid, pages[j])
                              => pages[i][2] < pages[j][2]

\* a combined PDF of documents that were found in another order, in two files
C22_Witness ==
    /\ Combined
    /\ \E w \in 1..Len(written) :
          LET docs == DocsOfStudent(StudentIdOfPath(written[w].path)) IN
          /\ Len(written[w].pages) = 3
          /\ docs[1].document_type = Teacher
          /\ docs[3].document_type = Notification
          /\ docs[1].file_path # docs[3].file_path
          /\ written[w].pages[1] = <<docs[3].file_path, docs[3].pages[1]>>

\* the page is no longer in its source file when the PDFs are combined
MissingAtCombine(pair) ==
    /\ pair[1] \in combine_env.short
    /\ pair[2] >= Len(files[pair[1]].pages) - 1

\* C23: a page index listed in a DocumentInfo that is no longer in the source
\* file when the documents are combined is skipped and nothing is raised: the
\* student is still reported as combined, the output file is written once, it
\* holds every other listed page of every document of the student exactly
\* once, and these pages are in the order of the documents and of their pages.
C23_MissingPageSkipped ==
    (Combined /\ combine_env.short # {}) =>
        \A k \in CompleteStudents(student_documents) :
            LET sid == student_documents[k].student_id
                want == {pair \in PagePairs(student_documents[k].docs) :
                            ~MissingAtCombine(pair)}
                out == {w \in 1..Len(written) : written[w].path = OutputPath(sid)}
            IN  /\ OutputPath(sid) \in Range(created_files)
                /\ \A i \in 1..Len(incomplete_students) :
                      incomplete_students[i].student_id # sid
                /\ Cardinality(out) = 1
                /\ \A w \in out :
                      /\ Range(written[w].pages) = want
                      /\ Len(written[w].pages) = Cardinality(want)
                      /\ \A i, j \in 1..Len(written[w].pages) :
                            i < j =>
                                \/ DocOfWritten(sid, written[w].pages[i])
                                      # DocOfWritten(sid, written[w].pages[j])
                                      /\ PlaceOfType(TypeOfWritten(sid, written[w].pages[i]))
                                            <= PlaceOfType(TypeOfWritten(sid, written[w].pages[j]))
                                \/ DocOfWritten(sid, written[w].pages[i])
                                      = DocOfWritten(sid, written[w].pages[j])
                                      /\ written[w].pages[i][2] < written[w].pages[j][2]

\* the page of the first document is gone and the pages of the others are written
C23_Witness ==
    /\ Combined
    /\ combine_env.short # {}
    /\ \E w \in 1..Len(written) :
          LET sid == StudentIdOfPath(written[w].path)
              first == SortDocumentsByPriority(DocsOfStudent(sid))[1]
          IN  /\ MissingAtCombine(<<first.file_path, first.pages[1]>>)
              /\ Len(written[w].pages) = 2

\* ------------------------------------------- main(): several input files
\* the DocumentInfo of input file f, in the order they were built
DocumentsOfFile(f) ==
    LET FromFile(d) == d.file_path = f IN SelectSeq(documents, FromFile)

\* what process_pdfs builds when file f is the only file of the directory
DocumentsOfFileAlone(f) ==
    LET alone == AllDocuments(<<files[f]>>, 1)
    IN  [d \in 1..Len(alone) |-> [alone[d] EXCEPT !.file_path = f]]

\* the document types found for a student in all input files
TypesFoundFor(sid) ==
    {documents[d].document_type :
        d \in {e \in 1..Len(documents) : documents[e].student_id = sid}}

\* C24: the DocumentInfo of an input file are those the file gives when it is
\* processed alone; a student whose required types are found in the input
\* files together, possibly one in each file, has one group holding all the
\* documents, is combined when nothing fails, and every page of the combined
\* PDF is the page of one of the student's documents in that document's own
\* source file.
C24_CompleteAcrossFiles ==
    /\ pc # "idle" =>
          \A f \in 1..Len(files) : DocumentsOfFile(f) = DocumentsOfFileAlone(f)
    /\ Combined =>
          \A sid \in StudentIds :
              required_docs \subseteq TypesFoundFor(sid) =>
                  LET groups == {k \in 1..Len(student_documents) :
                                    student_documents[k].student_id = sid}
                  IN  /\ Cardinality(groups) = 1
                      /\ \A k \in groups :
                            /\ Len(student_documents[k].docs)
                                  = Cardinality({d \in 1..Len(documents) :
                                                    documents[d].student_id = sid})
                            /\ IsComplete(FoundDocTypes(student_documents[k].docs))
                            /\ combine_env = NoEnv =>
                                  /\ OutputPath(sid) \in Range(created_files)
                                  /\ \E w \in 1..Len(written) :
                                        /\ written[w].path = OutputPath(sid)
                                        /\ Range(written[w].pages)
                                              = PagePairs(student_documents[k].docs)

\* a student is combined from documents of two input files
C24_Witness ==
    /\ Combined
    /\ \E w \in 1..Len(written) :
          /\ Len(written[w].pages) = 3
          /\ \E i, j \in 1..3 : written[w].pages[i][1] # written[w].pages[j][1]
          /\ \A f \in 1..Len(files) :
                ~IsComplete({DocumentsOfFile(f)[d].document_type :
                                d \in 1..Len(DocumentsOfFile(f))})

\* --------------------------------------------- main(): run() then upload
\* C25: every combined PDF the current run created for a student id that was
\* not in the completed-students ledger when the run started has been posted
\* to the upload endpoint once upload_created_files has returned.
C25_NewFilesPosted ==
    pc \in {"uploaded", "done"} =>
        \A i \in 1..Len(results.created_files) :
            StudentIdOfPath(results.created_files[i]) \notin LedgerIds(ledger_before)
                => results.created_files[i] \in Range(posted)

\* the entries of a report list that name the student
EntriesOf(list, sid) == {i \in 1..Len(list) : list[i].student_id = sid}

\* C29: create_combined_pdfs partitions the students: every student id of
\* the mapping is listed exactly once, in completed_students or in
\* incomplete_students, the lists name no other id, created_files has exactly
\* one entry per completed student, and the result of run() has
\* complete_students + incomplete_students = total_students.
C29_StudentsPartitioned ==
    Combined =>
        /\ \A k \in 1..Len(student_documents) :
              LET sid == student_documents[k].student_id IN
              Cardinality(EntriesOf(completed_students, sid))
                  + Cardinality(EntriesOf(incomplete_students, sid)) = 1
        /\ Len(completed_students) + Len(incomplete_students) = Len(student_documents)
        /\ Len(created_files) = Len(completed_students)
        /\ \A i \in 1..Len(created_files) :
              created_files[i] = OutputPath(completed_students[i].student_id)
        /\ results.status \in {"SUCCESS", "INCOMPLETE_DOCUMENTS"} =>
              results.complete_students + results.incomplete_students
                  = results.total_students

\* run() has returned the counts of a run in which a student with all three
\* forms could not be written and is counted as incomplete
C29_Witness ==
    /\ pc = "returned"
    /\ combine_env.write_fail # {}
    /\ results.status = "INCOMPLETE_DOCUMENTS"
    /\ results.total_students = 1
    /\ results.incomplete_students = 1
    /\ results.complete_students = 0

\* C30: after run() has returned NO_DOCUMENTS or INCOMPLETE_DOCUMENTS,
\* main() ends without an unhandled error and has posted no file.
C30_MainEndsQuietly ==
    (pc # "idle" /\ results.status \in {"NO_DOCUMENTS", "INCOMPLETE_DOCUMENTS"}) =>
        /\ pc # "crashed"
        /\ posted = <<>>
        /\ success_files = <<>>
====
